---- MODULE Spec2Model ----
(***************************************************************************)
(* Model of generate_feed.py: the feed generator that fetches categories,  *)
(* an external image map and the products of every brand source, maps the  *)
(* products to offers and writes feed.xml.                                 *)
(*                                                                         *)
(* JSON scalars are modelled by their text; Missing stands for an absent   *)
(* key (dict.get gives None) and Null for a JSON null value.  The product  *)
(* fields that no checked property reads (title, categoryId, description,  *)
(* weight, height, width, depth) are left out of the records.              *)
(***************************************************************************)
EXTENDS Integers, Sequences, FiniteSets, TLC

\* ---------------------------------------------------------------- bounds
MaxSourceLen == 2
MaxProducts == 2
MaxCategories == 2
MaxExternalOffers == 1

\* ------------------------------------------------------- python values
Missing == "<missing>"
Null == "<null>"

\* bool(v) of a scalar: None and the empty string are falsy
Truthy(v) == v \notin {Missing, Null, ""}

\* str(v): str(None) is the four-letter text "None"
Str(v) == IF v \in {Missing, Null} THEN "None" ELSE v

\* d.get(key, default) when the value stored under key is `value`
DictGet(value, default) == IF value = Missing THEN default ELSE value

\* s.strip() on the texts of the model
Strip(s) == IF s = " " THEN "" ELSE s

\* JSON documents
NullJson == [type |-> "null", items |-> <<>>]
ListJson(s) == [type |-> "list", items |-> s]
ProductsJson(s) == [type |-> "dict", items |-> s]
OtherJson == [type |-> "dict_other", items |-> <<>>]
EmptyJson == [type |-> "dict_empty", items |-> <<>>]

\* bool(json): None, [] and {} are falsy
TruthyJson(j) ==
    CASE j.type = "null" -> FALSE
      [] j.type = "list" -> j.items # <<>>
      [] j.type = "dict" -> TRUE
      [] j.type = "dict_other" -> TRUE
      [] j.type = "dict_empty" -> FALSE

SeqsUpTo(S, n) == UNION {[1..k -> S] : k \in 0..n}

\* ------------------------------------------------------- configuration
BASE_URL == "https://prompower.ru/api"
EXTERNAL_FEED_URL == "https://prompower.ru/feed.xml"
CATEGORIES_API_URL == "https://prompower.ru/api/categories"
PRODUCTS_API ==
    << [brand |-> "Prompower", url |-> "https://prompower.ru/api/prod/getProducts"],
       [brand |-> "Unimat", url |-> "https://prompower.ru/api/prod/getUnimatProducts"] >>

Credentials == {Missing, "secret"}

\* ------------------------------------------------------------ upstream
FailureKinds == {"transport_error", "http_error", "bad_json"}

BaseProduct ==
    [article |-> "A1", price |-> "100", instock |-> "5",
     picture |-> Missing, image |-> Missing, source_brand |-> Missing]

RunProducts ==
    { BaseProduct,
      [BaseProduct EXCEPT !.article = Missing],
      [BaseProduct EXCEPT !.instock = "abc"] }

RunCategory == [id |-> "1", title |-> "Drives"]

ProductBodies ==
    {NullJson, OtherJson, EmptyJson}
      \cup {ListJson(s) : s \in SeqsUpTo(RunProducts, MaxSourceLen)}
      \cup {ProductsJson(s) : s \in SeqsUpTo(RunProducts, MaxSourceLen)}

CategoryBodies ==
    {NullJson, OtherJson}
      \cup {ListJson(s) : s \in SeqsUpTo({RunCategory}, MaxCategories)}

Responses(bodies) ==
    {[kind |-> k, body |-> NullJson] : k \in FailureKinds}
      \cup {[kind |-> "ok", body |-> b] : b \in bodies}

VARIABLES pc, outcome, API_EMAIL, API_KEY, categories, images_map,
          all_products, brandIdx, calls, trace, lastFetch, received,
          feed, writes

vars == <<pc, outcome, API_EMAIL, API_KEY, categories, images_map,
          all_products, brandIdx, calls, trace, lastFetch, received,
          feed, writes>>

\* ---------------------------------------------------------- fetch_data
\* What one call of fetch_data does when the transport and the server
\* behave as `net` says: the value returned, the requests issued and
\* whether an exception leaves the function.
FetchResult(value, requests, raised) ==
    [value |-> value, requests |-> requests, raised |-> raised]

\* a variant that repeats a failed request once
fetch_data_retry(url, is_post, email, key, net) ==
    IF is_post /\ (~Truthy(email) \/ ~Truthy(key))
    THEN FetchResult(NullJson, <<>>, FALSE)
    ELSE IF net.kind = "ok"
         THEN FetchResult(net.body, <<url>>, FALSE)
         ELSE FetchResult(NullJson, <<url, url>>, FALSE)

\* a variant without the credentials check and without the JSON handler
fetch_data_unguarded(url, is_post, email, key, net) ==
    CASE net.kind = "transport_error" -> FetchResult(NullJson, <<url>>, FALSE)
      [] net.kind = "http_error" -> FetchResult(NullJson, <<url>>, FALSE)
      [] net.kind = "bad_json" -> FetchResult(NullJson, <<url>>, TRUE)
      [] net.kind = "ok" -> FetchResult(net.body, <<url>>, FALSE)

fetch_data(url, is_post, email, key, net) ==
    IF is_post /\ (~Truthy(email) \/ ~Truthy(key))
    THEN FetchResult(NullJson, <<>>, FALSE)
    ELSE CASE net.kind = "transport_error" -> FetchResult(NullJson, <<url>>, FALSE)
           [] net.kind = "http_error" -> FetchResult(NullJson, <<url>>, FALSE)
           [] net.kind = "bad_json" -> FetchResult(NullJson, <<url>>, FALSE)
           [] net.kind = "ok" -> FetchResult(net.body, <<url>>, FALSE)

\* ------------------------------------------- fetch_external_images_map
ExternalKinds == {"transport_error", "http_error", "bad_xml", "ok"}
ExternalPicture == "http://ext/a.jpg"
ExternalOffers ==
    [id : {Missing, "A1"}, picture : {Missing, "", " ", ExternalPicture}]
ExternalResponses ==
    {[kind |-> k, offers |-> <<>>] : k \in ExternalKinds \ {"ok"}}
      \cup {[kind |-> "ok", offers |-> s] :
                s \in SeqsUpTo(ExternalOffers, MaxExternalOffers)}

EmptyMap == [k \in {} |-> ""]
MapGet(map, k) == IF k \in DOMAIN map THEN map[k] ELSE Missing
MapPut(map, k, v) == [x \in DOMAIN map \cup {k} |-> IF x = k THEN v ELSE map[x]]

RECURSIVE BuildImagesMap(_, _)
BuildImagesMap(offers, map) ==
    IF offers = <<>> THEN map
    ELSE LET offer == Head(offers)
             next == IF Truthy(offer.id) /\ offer.picture # Missing
                        /\ offer.picture # ""
                     THEN MapPut(map, offer.id, Strip(offer.picture))
                     ELSE map
         IN BuildImagesMap(Tail(offers), next)

fetch_external_images_map(net) ==
    IF net.kind = "ok" THEN BuildImagesMap(net.offers, EmptyMap) ELSE EmptyMap

\* ---------------------------------------------------- fetch_all_products
\* the tagging loop that writes nothing
TagProductsUntagged(product_list, brand_name) == product_list

TagProducts(product_list, brand_name) ==
    [i \in 1..Len(product_list) |->
        [product_list[i] EXCEPT !.source_brand = brand_name]]

ProductList(products_data) ==
    IF products_data.type = "list" THEN products_data.items
    ELSE IF products_data.type = "dict" THEN products_data.items
    ELSE <<>>

\* one iteration of the loop over PRODUCTS_API
ExtendProducts(products, brand_name, products_data) ==
    IF ~TruthyJson(products_data) THEN products
    ELSE products \o TagProducts(ProductList(products_data), brand_name)

\* ---------------------------------------------------- generate_xml_feed
\* float(v): the texts of the model that float() accepts, and their values
FloatTexts == {"0", "-5", "100", "nan"}
FloatValue(text) ==
    CASE text = "0" -> [nan |-> FALSE, num |-> 0]
      [] text = "-5" -> [nan |-> FALSE, num |-> -5]
      [] text = "100" -> [nan |-> FALSE, num |-> 100]
      [] text = "nan" -> [nan |-> TRUE, num |-> 0]
FloatZero == [nan |-> FALSE, num |-> 0]

\* f <= 0 on floats: every comparison with NaN is false
FloatLeqZero(f) == ~f.nan /\ f.num <= 0

\* lines 170-173: float(product.get("price", 0)), 0 on ValueError/TypeError
PriceValue(product) ==
    LET raw == DictGet(product.price, "0")
    IN IF raw \in FloatTexts THEN FloatValue(raw) ELSE FloatZero

\* int(v): the texts of the model that int() accepts, and their values
IntTexts == {"0", "5"}
IntValue(text) == IF text = "5" THEN 5 ELSE 0

\* line 229: int(product.get("instock", 0)); raises on any other value
StockRaises(product) == DictGet(product.instock, "0") \notin IntTexts
StockQuantity(product) == IntValue(DictGet(product.instock, "0"))

\* a flag computed from the stock of the product
PreorderFromStock(product) ==
    IF StockRaises(product) \/ StockQuantity(product) < 1 THEN "1" ELSE "0"

\* line 192
PreorderFlag(product) == "1"

\* lines 195-202
BrandName(product) ==
    IF DictGet(product.source_brand, "Prompower") = "Unimat"
    THEN "Unimat" ELSE "Prompower"

\* a variant that asks the product before the image map
ResolvePictureApiFirst(product, map, offer_id) ==
    LET api_image == DictGet(product.picture, product.image)
        external_image == MapGet(map, offer_id)
    IN IF Truthy(api_image) THEN <<api_image>>
       ELSE IF Truthy(external_image) THEN <<external_image>> ELSE <<>>

\* lines 211-220: the picture elements of the offer
ResolvePicture(product, map, offer_id) ==
    LET external_image == MapGet(map, offer_id)
        api_image == DictGet(product.picture, product.image)
    IN IF Truthy(external_image) THEN <<external_image>>
       ELSE IF Truthy(api_image) THEN <<api_image>> ELSE <<>>

\* lines 166-177: the record is skipped
Skipped(product) ==
    ~Truthy(product.article) \/ FloatLeqZero(PriceValue(product))

\* lines 180-231: the offer element built for a product that is not skipped
MakeOffer(product, map) ==
    LET offer_id == Str(product.article)
    IN [id |-> offer_id,
        vendorCode |-> offer_id,
        price |-> Str(DictGet(product.price, "0")),
        preorder |-> PreorderFlag(product),
        brand |-> BrandName(product),
        vendor |-> BrandName(product),
        picture |-> ResolvePicture(product, map, offer_id),
        warehouse |-> StockQuantity(product)]

\* lines 162-245: the loop over products_list; raised when int() raised
RECURSIVE MapProducts(_, _, _)
MapProducts(products, map, offers) ==
    IF products = <<>> THEN [raised |-> FALSE, offers |-> offers]
    ELSE LET product == Head(products)
         IN IF Skipped(product)
            THEN MapProducts(Tail(products), map, offers)
            ELSE IF StockRaises(product)
                 THEN [raised |-> TRUE, offers |-> offers]
                 ELSE MapProducts(Tail(products), map,
                                  Append(offers, MakeOffer(product, map)))

\* lines 148-154: the category elements
RECURSIVE MapCategories(_)
MapCategories(cats) ==
    IF cats = <<>> THEN <<>>
    ELSE LET category == Head(cats)
             category_id == Str(category.id)
             category_title == category.title
         IN IF Truthy(category_id) /\ Truthy(category_title)
            THEN <<[id |-> category_id, title |-> category_title]>>
                     \o MapCategories(Tail(cats))
            ELSE MapCategories(Tail(cats))

\* the whole function: the document written to feed.xml, unless it raised
generate_xml_feed(products_list, categories_data, map) ==
    LET cats == IF categories_data.type = "list"
                THEN MapCategories(categories_data.items) ELSE <<>>
        mapped == MapProducts(products_list, map, <<>>)
    IN [raised |-> mapped.raised,
        doc |-> [categories |-> cats, offers |-> mapped.offers]]

\* ------------------------------------------------------------ __main__
OldFeed == [categories |-> <<>>, offers |-> <<>>, old |-> TRUE]
NewFeed(doc) == [categories |-> doc.categories, offers |-> doc.offers, old |-> FALSE]

NoFetch ==
    [called |-> FALSE, url |-> "", is_post |-> FALSE, kind |-> "",
     value |-> NullJson, requests |-> <<>>, raised |-> FALSE]
FetchRecord(url, is_post, net, r) ==
    [called |-> TRUE, url |-> url, is_post |-> is_post, kind |-> net.kind,
     value |-> r.value, requests |-> r.requests, raised |-> r.raised]

Init ==
    /\ pc = "categories"
    /\ outcome = "running"
    /\ API_EMAIL \in Credentials
    /\ API_KEY \in Credentials
    /\ categories = NullJson
    /\ images_map = EmptyMap
    /\ all_products = <<>>
    /\ brandIdx = 1
    /\ calls = <<>>
    /\ trace = <<>>
    /\ lastFetch = NoFetch
    /\ received = <<>>
    /\ feed = OldFeed
    /\ writes = 0

\* a guard that never ends the run
CategoriesGuardOff(cats) == "images"

\* lines 265-267: where the run goes after the categories fetch
CategoriesGuard(cats) == IF ~TruthyJson(cats) THEN "exit1" ELSE "images"

\* lines 274-276: where the run goes after fetch_all_products
ProductsGuard(products) == IF products = <<>> THEN "exit1" ELSE "generate"

\* lines 264-267
MainFetchCategories ==
    /\ pc = "categories"
    /\ \E net \in Responses(CategoryBodies) :
         LET r == fetch_data(CATEGORIES_API_URL, FALSE, API_EMAIL, API_KEY, net)
             to == CategoriesGuard(r.value)
         IN /\ lastFetch' = FetchRecord(CATEGORIES_API_URL, FALSE, net, r)
            /\ calls' = calls \o r.requests
            /\ categories' = r.value
            /\ pc' = IF r.raised \/ to = "exit1" THEN "done" ELSE to
            /\ outcome' = IF r.raised THEN "crash"
                          ELSE IF to = "exit1" THEN "exit1" ELSE outcome
    /\ trace' = Append(trace, "categories")
    /\ UNCHANGED <<API_EMAIL, API_KEY, images_map, all_products, brandIdx,
                   received, feed, writes>>

\* line 270
MainFetchImages ==
    /\ pc = "images"
    /\ \E net \in ExternalResponses :
         images_map' = fetch_external_images_map(net)
    /\ calls' = Append(calls, EXTERNAL_FEED_URL)
    /\ trace' = Append(trace, "images")
    /\ pc' = "products"
    /\ UNCHANGED <<outcome, API_EMAIL, API_KEY, categories, all_products,
                   brandIdx, lastFetch, received, feed, writes>>

\* lines 110-127, one iteration; after the last one lines 273-276
FetchAllProductsStep ==
    /\ pc = "products"
    /\ brandIdx <= Len(PRODUCTS_API)
    /\ \E net \in Responses(ProductBodies) :
         LET source == PRODUCTS_API[brandIdx]
             r == fetch_data(source.url, TRUE, API_EMAIL, API_KEY, net)
             products == ExtendProducts(all_products, source.brand, r.value)
             last == brandIdx = Len(PRODUCTS_API)
             to == IF last THEN ProductsGuard(products) ELSE "products"
         IN /\ lastFetch' = FetchRecord(source.url, TRUE, net, r)
            /\ calls' = calls \o r.requests
            /\ received' = Append(received, net)
            /\ all_products' = IF r.raised THEN all_products ELSE products
            /\ pc' = IF r.raised \/ to = "exit1" THEN "done" ELSE to
            /\ outcome' = IF r.raised THEN "crash"
                          ELSE IF to = "exit1" THEN "exit1" ELSE outcome
    /\ brandIdx' = brandIdx + 1
    /\ trace' = Append(trace, PRODUCTS_API[brandIdx].brand)
    /\ UNCHANGED <<API_EMAIL, API_KEY, categories, images_map, feed, writes>>

\* line 279, and the normal end of the script
MainGenerate ==
    /\ pc = "generate"
    /\ LET g == generate_xml_feed(all_products, categories, images_map)
       IN /\ feed' = IF g.raised THEN feed ELSE NewFeed(g.doc)
          /\ writes' = IF g.raised THEN writes ELSE writes + 1
          /\ trace' = IF g.raised THEN Append(trace, "map")
                      ELSE trace \o <<"map", "serialize">>
          /\ outcome' = IF g.raised THEN "crash" ELSE "exit0"
    /\ pc' = "done"
    /\ UNCHANGED <<API_EMAIL, API_KEY, categories, images_map, all_products,
                   brandIdx, calls, lastFetch, received>>

Next ==
    \/ MainFetchCategories
    \/ MainFetchImages
    \/ FetchAllProductsStep
    \/ MainGenerate

Spec == Init /\ [][Next]_vars

\* ------------------------------------- generate_xml_feed on its own
\* The arguments of generate_xml_feed, drawn from the values a field can
\* take: every product that differs from BaseProduct in at most one field,
\* and every combination of key, picture and image.
Articles == {Missing, "", "A1", "B2"}
Prices == {Missing, Null, "abc", "0", "-5", "100", "nan"}
Stocks == {Missing, Null, "0", "5", "abc"}
ApiPicture == "http://api/pic.jpg"
ApiImage == "http://api/img.jpg"
Pictures == {Missing, Null, "", ApiPicture}
Images == {Missing, ApiImage}
Brands == {Missing, "Prompower", "Unimat", "Other"}

FeedProducts ==
    {[BaseProduct EXCEPT !.article = a] : a \in Articles}
      \cup {[BaseProduct EXCEPT !.price = v] : v \in Prices}
      \cup {[BaseProduct EXCEPT !.instock = v] : v \in Stocks}
      \cup {[BaseProduct EXCEPT !.source_brand = v] : v \in Brands}
      \cup {[BaseProduct EXCEPT !.article = a, !.picture = x, !.image = y] :
                a \in {"A1", "B2"}, x \in Pictures, y \in Images}

FeedCategories == [id : {Missing, "", "1", "2"}, title : {Missing, "", "Drives"}]

ImageKeys == {"A1", "B2"}
FeedImageMaps == UNION {[S -> {"", ExternalPicture}] : S \in SUBSET ImageKeys}

InitFeed ==
    /\ pc = "generate"
    /\ outcome = "running"
    /\ API_EMAIL = "secret"
    /\ API_KEY = "secret"
    /\ \/ /\ categories \in {ListJson(s) : s \in SeqsUpTo(FeedCategories, MaxCategories)}
          /\ all_products = <<BaseProduct>>
          /\ images_map = EmptyMap
       \/ /\ categories = ListJson(<<RunCategory>>)
          /\ all_products \in SeqsUpTo(FeedProducts, MaxProducts)
          /\ images_map \in FeedImageMaps
    /\ brandIdx = 1
    /\ calls = <<>>
    /\ trace = <<>>
    /\ lastFetch = NoFetch
    /\ received = <<>>
    /\ feed = OldFeed
    /\ writes = 0

NextFeed == MainGenerate

SpecFeed == InitFeed /\ [][NextFeed]_vars

\* ============================================================ properties
Written == pc = "done" /\ outcome = "exit0"
NonEmpty(v) == v \notin {Missing, Null, ""}
NotSkipped(product) == ~Skipped(product)

\* ---- C1
HasIdAndTitle(c) == NonEmpty(c.id) /\ NonEmpty(c.title)
KeptCategories(items) ==
    LET kept == SelectSeq(items, HasIdAndTitle)
    IN [i \in 1..Len(kept) |-> [id |-> kept[i].id, title |-> kept[i].title]]

\* C1: the categories block of the written feed holds, in source order and
\* once each, exactly the categories of the list passed to generate_xml_feed
\* that have a non-empty id and a non-empty title; a category missing either
\* one is left out.
C1_CategoriesFiltered ==
    (Written /\ categories.type = "list")
        => feed.categories = KeptCategories(categories.items)

C3_ExitCodes ==
    /\ outcome \in {"running", "exit0", "exit1"}
    /\ pc = "done" =>
          /\ outcome = "exit1" <=> (~TruthyJson(categories) \/ all_products = <<>>)
          /\ outcome = "exit0" => (writes = 1 /\ ~feed.old)

\* ---- C4
ParsesPositive(text) ==
    /\ text \in FloatTexts
    /\ ~FloatValue(text).nan
    /\ FloatValue(text).num > 0
HasKeyAndPositivePrice(product) ==
    NonEmpty(product.article) /\ ParsesPositive(product.price)

\* C4: the offers of the written feed are, in order, the products that have
\* a truthy article and a price that parses to a number greater than zero;
\* every other product is left out, and leaving one out does not stop the
\* later products.
C4_OffersHaveKeyAndPositivePrice ==
    Written =>
        LET kept == SelectSeq(all_products, HasKeyAndPositivePrice)
        IN /\ Len(feed.offers) = Len(kept)
           /\ \A i \in 1..Len(kept) :
                 /\ feed.offers[i].id = kept[i].article
                 /\ feed.offers[i].price = kept[i].price

\* ---- C5
ExpectedStock(product) ==
    IF product.instock \in IntTexts THEN IntValue(product.instock) ELSE 0

\* C5: generate_xml_feed always writes the feed, and the warehouse quantity
\* of every offer is the stock count of its product parsed as an integer, 0
\* when the stock field is missing or no valid integer; an invalid stock
\* value prevents neither that offer nor a later one.
C5_WarehouseDefaultsToZero ==
    pc = "done" =>
        LET kept == SelectSeq(all_products, NotSkipped)
        IN /\ outcome = "exit0"
           /\ Len(feed.offers) = Len(kept)
           /\ \A i \in 1..Len(kept) :
                 feed.offers[i].warehouse = ExpectedStock(kept[i])

\* ---- C6
ExpectedPicture(product, map) ==
    LET k == product.article
        mapped == IF k \in DOMAIN map THEN map[k] ELSE ""
    IN IF mapped # "" THEN <<mapped>>
       ELSE IF product.picture # Missing
            THEN (IF NonEmpty(product.picture) THEN <<product.picture>> ELSE <<>>)
            ELSE (IF NonEmpty(product.image) THEN <<product.image>> ELSE <<>>)

\* C6: an offer whose key has a non-empty entry in the image map has exactly
\* one picture, the mapped value, whatever the product's own fields; any
\* other offer has the product's picture field, or its image field when the
\* picture key is absent, and no picture element when that gives no value.
C6_PicturePrecedence ==
    Written =>
        LET kept == SelectSeq(all_products, NotSkipped)
        IN /\ Len(feed.offers) = Len(kept)
           /\ \A i \in 1..Len(kept) :
                 feed.offers[i].picture = ExpectedPicture(kept[i], images_map)

C6_Witness ==
    /\ Written
    /\ Len(all_products) = 1
    /\ all_products[1].article = "A1"
    /\ all_products[1].picture = ApiPicture
    /\ MapGet(images_map, "A1") = ExternalPicture
    /\ Len(feed.offers) = 1
    /\ feed.offers[1].picture = <<ExternalPicture>>

\* ---- C7
SourceSucceeded(net) == API_EMAIL = "secret" /\ API_KEY = "secret" /\ net.kind = "ok"
SourceProducts(net) ==
    IF net.body.type \in {"list", "dict"} THEN net.body.items ELSE <<>>
RECURSIVE ExpectedAggregate(_)
ExpectedAggregate(n) ==
    IF n = 0 THEN <<>>
    ELSE ExpectedAggregate(n - 1) \o
           (IF SourceSucceeded(received[n])
            THEN LET list == SourceProducts(received[n])
                 IN [i \in 1..Len(list) |->
                        [list[i] EXCEPT !.source_brand = PRODUCTS_API[n].brand]]
            ELSE <<>>)

\* C7: after each source of fetch_all_products, the aggregated list is the
\* concatenation, in source order, of the product lists of the sources
\* fetched with success, each record tagged with the brand of its source;
\* a failed source adds nothing and no record is dropped as a duplicate.
C7_Aggregation == all_products = ExpectedAggregate(Len(received))

C7_Witness ==
    /\ Len(received) = Len(PRODUCTS_API)
    /\ Len(all_products) = 4
    /\ all_products[1].article = "A1" /\ all_products[3].article = "A1"
    /\ all_products[1].source_brand = "Prompower"
    /\ all_products[3].source_brand = "Unimat"

\* ---- C8
\* C8: no call of fetch_data lets an exception escape; a transport error, an
\* HTTP error status and an undecodable JSON body each give None, and a POST
\* call with API_EMAIL or API_KEY missing gives None with no request issued.
C8_FailuresGiveNone ==
    lastFetch.called =>
        /\ ~lastFetch.raised
        /\ lastFetch.kind \in FailureKinds => lastFetch.value = NullJson
        /\ (lastFetch.is_post /\ (API_EMAIL = Missing \/ API_KEY = Missing))
              => (lastFetch.value = NullJson /\ lastFetch.requests = <<>>)

C8_Witness ==
    /\ lastFetch.called
    /\ lastFetch.is_post
    /\ API_EMAIL = "secret"
    /\ API_KEY = Missing
    /\ lastFetch.kind = "ok"
    /\ lastFetch.value = NullJson
    /\ lastFetch.requests = <<>>

\* ---- C9
CanonicalSteps ==
    <<"categories", "images">>
        \o [i \in 1..Len(PRODUCTS_API) |-> PRODUCTS_API[i].brand]
        \o <<"map", "serialize">>
CanonicalCalls ==
    <<CATEGORIES_API_URL, EXTERNAL_FEED_URL>>
        \o [i \in 1..Len(PRODUCTS_API) |-> PRODUCTS_API[i].url]
Rank(url) == CHOOSE i \in 1..Len(CanonicalCalls) : CanonicalCalls[i] = url

\* C9: the steps of a run are a prefix of: categories fetch, image-map
\* fetch, the product fetch of each brand source in configured order,
\* mapping, serialization; and the requests issued follow that order with
\* no request issued twice.
C9_SequentialNoRetry ==
    /\ Len(trace) <= Len(CanonicalSteps)
    /\ \A i \in 1..Len(trace) : trace[i] = CanonicalSteps[i]
    /\ \A i, j \in 1..Len(calls) : i < j => Rank(calls[i]) < Rank(calls[j])

C9_Witness ==
    /\ Written
    /\ trace = CanonicalSteps
    /\ Len(calls) = Len(CanonicalCalls)
    /\ lastFetch.kind = "http_error"

\* ---- C10
\* C10: a run that ends with exit code 1 leaves feed.xml as it was; the file
\* is written at most once, and only after the categories fetch, the
\* image-map fetch and every product fetch; and after a failed categories
\* fetch no image-map request and no product request is issued.
C10_AbortLeavesFeed ==
    /\ outcome = "exit1" => (feed = OldFeed /\ writes = 0)
    /\ writes <= 1
    /\ writes = 1 =>
          /\ Len(trace) >= Len(PRODUCTS_API) + 2
          /\ \A i \in 1..(Len(PRODUCTS_API) + 2) : trace[i] = CanonicalSteps[i]
    /\ (trace # <<>> /\ ~TruthyJson(categories)) =>
          \A i \in 1..Len(calls) : calls[i] = CATEGORIES_API_URL

C10_Witness ==
    /\ outcome = "exit1"
    /\ trace = <<"categories">>
    /\ lastFetch.kind = "http_error"
    /\ calls = <<CATEGORIES_API_URL>>
    /\ feed = OldFeed

====
